---------------------------- MODULE Spec2Model ----------------------------
(***************************************************************************)
(* Wildfire-risk page (src/app.py): a Streamlit script that reads weather  *)
(* widgets, asks a pre-trained classifier for a probability on a button    *)
(* press, and lowers the resulting risk by a soil-moisture heuristic.      *)
(*                                                                         *)
(* Number representation (exact fixed point, no rounding anywhere):        *)
(*   rainfall         tenths of a millimetre   (widget step is 0.1)        *)
(*   humidity         whole percent            (widget step is 1.0)        *)
(*   probability      thousandths              (0 .. 1000)                 *)
(*   moisture         tenths                   (0.9 is 9)                  *)
(*   risk multiplier  thousandths              (0.235 is 235)              *)
(*   risk             ten-thousandths of a percent (80 % is 800000)        *)
(* Every product below is exact in these units.  The code computes in      *)
(* IEEE doubles: its results differ from these by rounding in the last     *)
(* place only, its multiplication is monotone, and 80.0 * (1 - 0 * 0.85)   *)
(* is exactly 80.0, so the comparisons stated below come out the same.     *)
(*                                                                         *)
(* Two specifications:                                                     *)
(*   Spec    the page as the user drives it (widgets, button press).       *)
(*   SpecFn  the three functions of the file called directly, with         *)
(*           arguments that include values the widgets cannot produce.     *)
(***************************************************************************)
EXTENDS Integers, FiniteSets, Sequences, TLC

VARIABLES
    rainfall,           \* app.py:82  number_input "현재 강수량 (mm)", tenths of mm
    humidity,           \* app.py:83  number_input "습도 (%)"
    recent_rain_level,  \* app.py:89  radio, options 0..5
    page,               \* what the last script run rendered below the button
    call                \* SpecFn only: the last direct call and what it returned

vars == <<rainfall, humidity, recent_rain_level, page, call>>

---------------------------------------------------------------------------
(* Bounds of the model *)

\* largest rainfall considered, tenths of mm (the widget has no max_value)
MaxRainfall == 150

\* largest recent_rain_level passed in a direct call (SpecFn)
MaxLevelArg == 9

---------------------------------------------------------------------------
(* The functions of app.py *)

Max(a, b) == IF a >= b THEN a ELSE b
Min(a, b) == IF a <= b THEN a ELSE b

\* variant of base_moisture with the entries of levels 2 and 3 exchanged
base_moisture_unsorted ==
    (0 :> 0) @@ (1 :> 1) @@ (2 :> 5) @@ (3 :> 3) @@ (4 :> 7) @@ (5 :> 9)

\* app.py:16-23  base_moisture dict, in tenths
base_moisture ==
    (0 :> 0) @@ (1 :> 1) @@ (2 :> 3) @@ (3 :> 5) @@ (4 :> 7) @@ (5 :> 9)

\* variant of current_effect with strict comparisons at the tier boundaries
current_effect_strict(current_rainfall) ==
    IF current_rainfall > 100 THEN 9
    ELSE IF current_rainfall > 50 THEN 7
    ELSE IF current_rainfall > 10 THEN 4
    ELSE IF current_rainfall > 0 THEN 2
    ELSE 0

\* variant of current_effect with the values of the 5 mm and 1 mm tiers
\* exchanged
current_effect_swapped(current_rainfall) ==
    IF current_rainfall >= 100 THEN 9
    ELSE IF current_rainfall >= 50 THEN 4
    ELSE IF current_rainfall >= 10 THEN 7
    ELSE IF current_rainfall > 0 THEN 2
    ELSE 0

\* app.py:26-34  current_effect, in tenths; current_rainfall in tenths of mm
current_effect(current_rainfall) ==
    IF current_rainfall >= 100 THEN 9
    ELSE IF current_rainfall >= 50 THEN 7
    ELSE IF current_rainfall >= 10 THEN 4
    ELSE IF current_rainfall > 0 THEN 2
    ELSE 0

\* app.py:10-39  base_moisture[recent_rain_level] raises KeyError for a key
\* that is not in the dict; otherwise the maximum of the two signals.
calculate_cumulative_rainfall_factor(level, current_rainfall) ==
    IF level \notin DOMAIN base_moisture
    THEN [raised |-> TRUE, exc |-> "KeyError"]
    ELSE [raised |-> FALSE,
          total_moisture |-> Max(base_moisture[level],
                                 current_effect(current_rainfall))]

\* variant of risk_multiplier with the sign of the reduction flipped
risk_multiplier_plus(moisture_factor) == 1000 + moisture_factor * 85

\* variant of risk_multiplier with a weight of 0.7 in place of 0.85
risk_multiplier_w70(moisture_factor) == 1000 - moisture_factor * 70

\* app.py:46  risk_multiplier = 1 - (moisture_factor * 0.85), in thousandths
risk_multiplier(moisture_factor) == 1000 - moisture_factor * 85

\* variant of apply_smart_rainfall_adjustment that takes moisture * 0.85 off
\* the risk as percentage points instead of scaling the risk by it
apply_subtracts_points(base_risk, rainfall_mm, level) ==
    LET m == calculate_cumulative_rainfall_factor(level, rainfall_mm) IN
    IF m.raised
    THEN m
    ELSE [raised |-> FALSE,
          adjusted_risk |-> base_risk - m.total_moisture * 850,
          moisture_factor |-> m.total_moisture]

\* app.py:41-48  returns (base_risk * risk_multiplier, moisture_factor);
\* an exception of the callee propagates.
apply_smart_rainfall_adjustment(base_risk, rainfall_mm, level) ==
    LET m == calculate_cumulative_rainfall_factor(level, rainfall_mm) IN
    IF m.raised
    THEN m
    ELSE [raised |-> FALSE,
          adjusted_risk |->
              (base_risk * risk_multiplier(m.total_moisture)) \div 1000,
          moisture_factor |-> m.total_moisture]

\* variant of get_risk_level with the thresholds tested from the lowest up
get_risk_level_ascending(risk) ==
    IF risk < 100000 THEN <<"very low", "blue">>
    ELSE IF risk >= 100000 THEN <<"low", "green">>
    ELSE IF risk >= 250000 THEN <<"moderate", "gold">>
    ELSE IF risk >= 450000 THEN <<"high", "orange">>
    ELSE IF risk >= 650000 THEN <<"very high", "red">>
    ELSE <<"extreme", "darkred">>

\* variant of get_risk_level with strict comparisons (boundary values fall
\* into the lower tier)
get_risk_level_strict(risk) ==
    IF risk > 800000 THEN <<"extreme", "darkred">>
    ELSE IF risk > 650000 THEN <<"very high", "red">>
    ELSE IF risk > 450000 THEN <<"high", "orange">>
    ELSE IF risk > 250000 THEN <<"moderate", "gold">>
    ELSE IF risk > 100000 THEN <<"low", "green">>
    ELSE <<"very low", "blue">>

\* app.py:50-63  labels are the English names of the Korean strings:
\* 극도로 높음 extreme, 매우 높음 very high, 높음 high, 보통 moderate,
\* 낮음 low, 매우 낮음 very low.
get_risk_level(risk) ==
    IF risk >= 800000 THEN <<"extreme", "darkred">>
    ELSE IF risk >= 650000 THEN <<"very high", "red">>
    ELSE IF risk >= 450000 THEN <<"high", "orange">>
    ELSE IF risk >= 250000 THEN <<"moderate", "gold">>
    ELSE IF risk >= 100000 THEN <<"low", "green">>
    ELSE <<"very low", "blue">>

---------------------------------------------------------------------------
(* The page *)

\* app.py:82  values the rainfall widget can hold (min_value=0.0): the
\* values around every tier boundary of current_effect, repeated every 5 mm.
RainValues ==
    {r \in 0..MaxRainfall : (r % 50) \in {0, 1, 9, 10, 11, 49}}

\* app.py:83  values the humidity widget can hold (min 0, max 100)
HumidityValues == {0, 50, 60, 61, 90, 100}

\* app.py:91  options of the radio
LevelOptions == 0..5

\* app.py:120-121  what the classifier does on one press: Pool construction
\* or predict_proba raises, or predict_proba returns a probability in [0,1]
\* (thousandths).  The other widgets only feed the classifier, which is
\* opaque: its answer is a free choice here.
ProbaValues == {p \in 0..1000 : (p % 50) \in {0, 1, 49}}

ClassifierOutcomes ==
    {[kind |-> "raise", exc |-> "Pool"],
     [kind |-> "raise", exc |-> "predict_proba"]}
    \cup {[kind |-> "proba", proba |-> p] : p \in ProbaValues}

NothingRendered == [kind |-> "idle"]

\* app.py:120-167  the body of the try block.  Statements run in order and
\* st.* calls render as they run: `rendered` is what is on the page when the
\* body ends or raises.
\*   120-121  Pool / predict_proba may raise          (nothing rendered yet)
\*   123      base_risk = proba * 100
\*   124-126  adjustment may raise KeyError           (nothing rendered yet)
\*   133-147  metrics, reduction message, level
\*   150-151  st.progress raises for a value below 0  (metrics, level shown)
try_body(outcome, rain, level) ==
    IF outcome.kind = "raise"
    THEN [raised |-> TRUE, exc |-> outcome.exc, rendered |-> NothingRendered]
    ELSE
      LET base_risk == outcome.proba * 1000
          adj == apply_smart_rainfall_adjustment(base_risk, rain, level)
      IN
      IF adj.raised
      THEN [raised |-> TRUE, exc |-> adj.exc, rendered |-> NothingRendered]
      ELSE
        LET reduction == base_risk - adj.adjusted_risk
            lc == get_risk_level(adj.adjusted_risk)
            shown == [kind |-> "result",
                      base_risk |-> base_risk,
                      moisture_factor |-> adj.moisture_factor,
                      adjusted_risk |-> adj.adjusted_risk,
                      reduction |-> reduction,
                      reduction_message |-> (reduction > 0),
                      level |-> lc[1],
                      color |-> lc[2]]
        IN
        IF Min(adj.adjusted_risk, 1000000) < 0
        THEN [raised |-> TRUE, exc |-> "progress", rendered |-> shown]
        ELSE [raised |-> FALSE, exc |-> "", rendered |-> shown]

\* variant of button_handler without the except clause: the exception leaves
\* the script run
button_handler_no_except(outcome, rain, level) ==
    LET body == try_body(outcome, rain, level) IN
    IF ~body.raised
    THEN body.rendered
    ELSE [kind |-> "uncaught", message |-> body.exc]

\* app.py:119-170  try / except Exception: st.error(...).  What the body had
\* rendered before it raised stays on the page, followed by the error.
button_handler(outcome, rain, level) ==
    LET body == try_body(outcome, rain, level) IN
    IF ~body.raised
    THEN body.rendered
    ELSE IF body.rendered.kind = "idle"
    THEN [kind |-> "error", message |-> body.exc]
    ELSE [kind |-> "error", message |-> body.exc,
          base_risk |-> body.rendered.base_risk,
          moisture_factor |-> body.rendered.moisture_factor,
          adjusted_risk |-> body.rendered.adjusted_risk,
          reduction |-> body.rendered.reduction,
          reduction_message |-> body.rendered.reduction_message,
          level |-> body.rendered.level,
          color |-> body.rendered.color]

NoCall == [fn |-> "none"]

\* app.py:66-107  first script run: widgets at their defaults
\* (value=0.0, value=50.0, index=1), button not pressed.
Init ==
    /\ rainfall = 0
    /\ humidity = 50
    /\ recent_rain_level = 1
    /\ page = NothingRendered
    /\ call = NoCall

\* A widget change reruns the script with st.button returning False, so
\* nothing is rendered below the button (app.py:110).
SetRainfall ==
    \E r \in RainValues :
        /\ r # rainfall
        /\ rainfall' = r
        /\ page' = NothingRendered
        /\ UNCHANGED <<humidity, recent_rain_level, call>>

SetHumidity ==
    \E h \in HumidityValues :
        /\ h # humidity
        /\ humidity' = h
        /\ page' = NothingRendered
        /\ UNCHANGED <<rainfall, recent_rain_level, call>>

SelectRecentRainLevel ==
    \E l \in LevelOptions :
        /\ l # recent_rain_level
        /\ recent_rain_level' = l
        /\ page' = NothingRendered
        /\ UNCHANGED <<rainfall, humidity, call>>

\* app.py:110-170  one press of the button: one script run with the widgets
\* as they are.
PressButton ==
    \E outcome \in ClassifierOutcomes :
        /\ page' = button_handler(outcome, rainfall, recent_rain_level)
        /\ UNCHANGED <<rainfall, humidity, recent_rain_level, call>>

Next ==
    \/ SetRainfall
    \/ SetHumidity
    \/ SelectRecentRainLevel
    \/ PressButton

Spec == Init /\ [][Next]_vars

---------------------------------------------------------------------------
(* Direct calls of the three functions *)

\* base_risk arguments: -10 %, 0 %, 0.1 %, 25 %, 80 %, 100 %, 150 %
BaseArgs == {-100000, 0, 1000, 250000, 800000, 1000000, 1500000}

\* rainfall arguments: what the widget can hold, and -1.0 mm and -0.1 mm
RainArgs == RainValues \cup {-10, -1}

\* recent_rain_level arguments: the radio options and keys outside the dict
LevelArgs == -1..MaxLevelArg

\* risk arguments: every threshold of get_risk_level, the values 0.0001 %
\* and 0.001 % below it and 0.0001 % above it, and values outside [0,100]
RiskArgs ==
    {t + d : t \in {100000, 250000, 450000, 650000, 800000},
             d \in {-10, -1, 0, 1}}
    \cup {-1000000, -1, 0, 1, 999999, 1000000, 1000001, 2500000}

\* app.py:10  calculate_cumulative_rainfall_factor(level, rain)
CallFactor ==
    \E l \in LevelArgs, r \in RainArgs :
        /\ call' = [fn |-> "calculate_cumulative_rainfall_factor",
                    recent_rain_level |-> l,
                    current_rainfall |-> r,
                    ret |-> calculate_cumulative_rainfall_factor(l, r)]
        /\ UNCHANGED <<rainfall, humidity, recent_rain_level, page>>

\* app.py:41  apply_smart_rainfall_adjustment(base_risk, rain, level)
CallAdjust ==
    \E b \in BaseArgs, r \in RainArgs, l \in LevelArgs :
        /\ call' = [fn |-> "apply_smart_rainfall_adjustment",
                    base_risk |-> b,
                    rainfall_mm |-> r,
                    recent_rain_level |-> l,
                    ret |-> apply_smart_rainfall_adjustment(b, r, l)]
        /\ UNCHANGED <<rainfall, humidity, recent_rain_level, page>>

\* app.py:50  get_risk_level(risk)
CallRiskLevel ==
    \E x \in RiskArgs :
        /\ call' = [fn |-> "get_risk_level",
                    risk |-> x,
                    ret |-> get_risk_level(x)]
        /\ UNCHANGED <<rainfall, humidity, recent_rain_level, page>>

NextFn ==
    \/ CallFactor
    \/ CallAdjust
    \/ CallRiskLevel

SpecFn == Init /\ [][NextFn]_vars

---------------------------------------------------------------------------
(* Properties *)

ResultFields ==
    {"base_risk", "moisture_factor", "adjusted_risk", "reduction",
     "reduction_message", "level", "color"}

AdjustReturned ==
    /\ call.fn = "apply_smart_rainfall_adjustment"
    /\ ~call.ret.raised

\* C1: whenever a press renders a result, 0 <= adjusted risk <= base risk
\* <= 100 %.
C1_AdjustedWithinBase ==
    page.kind = "result" =>
        /\ 0 <= page.adjusted_risk
        /\ page.adjusted_risk <= page.base_risk
        /\ page.base_risk <= 1000000

\* a result whose risk was really lowered: 0 < adjusted < base
C1_Witness ==
    /\ page.kind = "result"
    /\ page.moisture_factor = 9
    /\ 0 < page.adjusted_risk
    /\ page.adjusted_risk < page.base_risk

\* C2 as stated: the rendered adjusted risk is
\* base * (1 - 0.7 * moisture) * (1 - 0.2 * max(0, (humidity - 60) / 40)).
\* Both sides are multiplied by 20000.
C2_ComplementMultiply ==
    page.kind = "result" =>
        page.adjusted_risk * 20000
            = page.base_risk * (100 - 7 * page.moisture_factor)
                             * (200 - Max(0, humidity - 60))

\* C2 as amended: the rendered adjusted risk is base * (1 - 0.85 * moisture)
\* whatever the humidity, where moisture is the soil moisture of the current
\* level and rainfall.  Both sides are multiplied by 1000.
C2_SingleFactor ==
    page.kind = "result" =>
        /\ page.adjusted_risk * 1000
               = page.base_risk * (1000 - 85 * page.moisture_factor)
        /\ page.moisture_factor
               = Max(base_moisture[recent_rain_level],
                     current_effect(rainfall))

\* a result under wet ground and humid air, where the two formulas differ
C2_Witness ==
    /\ page.kind = "result"
    /\ humidity = 90
    /\ page.moisture_factor = 7
    /\ page.base_risk = 500000
    /\ page.adjusted_risk = 202500

\* C7: a press ends in a complete result or in an error that shows a message
\* and none of the result outputs; no exception leaves the handler; and from
\* an error page the next press with an answering classifier renders a
\* complete result.
C7_FailureContained ==
    /\ page.kind \in {"idle", "result", "error"}
    /\ page.kind = "error" =>
           /\ DOMAIN page = {"kind", "message"}
           /\ page.message \in {"Pool", "predict_proba", "KeyError"}
           /\ \A o \in ClassifierOutcomes :
                  o.kind = "proba" =>
                      LET nxt == button_handler(o, rainfall, recent_rain_level)
                      IN /\ nxt.kind = "result"
                         /\ DOMAIN nxt = {"kind"} \cup ResultFields
    /\ page.kind = "result" => DOMAIN page = {"kind"} \cup ResultFields

\* an evaluation that failed in predict_proba
C7_Witness ==
    /\ page.kind = "error"
    /\ page.message = "predict_proba"

\* C8: base risk 80 %, rainfall 15 mm, level 5, humidity 90 gives an adjusted
\* risk below 25 %, in the tier low or very low.
C8_SaturatedScenario ==
    ( /\ page.kind = "result"
      /\ page.base_risk = 800000
      /\ rainfall = 150
      /\ recent_rain_level = 5
      /\ humidity = 90 )
    => /\ page.adjusted_risk < 250000
       /\ page.level \in {"low", "very low"}

\* the saturated scenario evaluated
C8_Witness ==
    /\ page.kind = "result"
    /\ page.base_risk = 800000
    /\ rainfall = 150
    /\ recent_rain_level = 5
    /\ humidity = 90
    /\ page.adjusted_risk = 188000

DryScenario ==
    /\ page.kind = "result"
    /\ page.base_risk = 800000
    /\ rainfall = 0
    /\ recent_rain_level = 0
    /\ humidity = 50

\* C9 as stated: in the dry scenario the reduction is 0, the adjusted risk
\* is 80 % and the level is very high / red.
C9_DryVeryHigh ==
    DryScenario =>
        /\ page.reduction = 0
        /\ page.adjusted_risk = 800000
        /\ page.level = "very high"
        /\ page.color = "red"

\* C9 as amended: in the dry scenario the reduction is 0, the adjusted risk
\* is 80 % and the level is extreme / darkred.
C9_DryExtreme ==
    DryScenario =>
        /\ page.reduction = 0
        /\ ~page.reduction_message
        /\ page.adjusted_risk = 800000
        /\ page.level = "extreme"
        /\ page.color = "darkred"

\* the dry scenario evaluated
C9_Witness ==
    /\ DryScenario
    /\ page.moisture_factor = 0

\* C3: get_risk_level returns, for every risk, the tier of the left-closed
\* step table 80 / 65 / 45 / 25 / 10.
C3_StepTable ==
    call.fn = "get_risk_level" =>
        LET x == call.risk IN
        /\ x >= 800000 => call.ret = <<"extreme", "darkred">>
        /\ (650000 <= x /\ x < 800000) => call.ret = <<"very high", "red">>
        /\ (450000 <= x /\ x < 650000) => call.ret = <<"high", "orange">>
        /\ (250000 <= x /\ x < 450000) => call.ret = <<"moderate", "gold">>
        /\ (100000 <= x /\ x < 250000) => call.ret = <<"low", "green">>
        /\ x < 100000 => call.ret = <<"very low", "blue">>

\* get_risk_level called just below a boundary: 79.999 % is very high
C3_Witness ==
    /\ call.fn = "get_risk_level"
    /\ call.risk = 799990
    /\ call.ret = <<"very high", "red">>

C5_MonotoneInRainfall ==
    [][ ( /\ AdjustReturned
          /\ AdjustReturned'
          /\ call'.base_risk = call.base_risk
          /\ call.base_risk >= 0
          /\ call'.recent_rain_level = call.recent_rain_level
          /\ call.rainfall_mm <= call'.rainfall_mm )
        => call'.ret.adjusted_risk <= call.ret.adjusted_risk ]_vars

\* a call in the 10 mm tier on dry ground that lowered a positive risk
C5_Witness ==
    /\ AdjustReturned
    /\ call.recent_rain_level = 0
    /\ call.rainfall_mm = 100
    /\ call.base_risk = 800000
    /\ call.ret.adjusted_risk = 188000

\* C6: of two successive calls with the same base risk >= 0 and the same
\* rainfall >= 0, the one with the larger level returns no larger risk.
C6_MonotoneInLevel ==
    [][ ( /\ AdjustReturned
          /\ AdjustReturned'
          /\ call'.base_risk = call.base_risk
          /\ call.base_risk >= 0
          /\ call'.rainfall_mm = call.rainfall_mm
          /\ call.rainfall_mm >= 0
          /\ call.recent_rain_level <= call'.recent_rain_level )
        => call'.ret.adjusted_risk <= call.ret.adjusted_risk ]_vars

\* a call at level 3 without rain that lowered a positive risk
C6_Witness ==
    /\ AdjustReturned
    /\ call.recent_rain_level = 3
    /\ call.rainfall_mm = 0
    /\ call.base_risk = 800000
    /\ call.ret.adjusted_risk = 460000

\* C10: for a level in 0..5 and a rainfall >= 0 the factor is the maximum of
\* the level's table entry and the rainfall step (>= 10 mm 0.9, >= 5 mm 0.7,
\* >= 1 mm 0.4, > 0 mm 0.2, else 0); the table increases with the level; the
\* factor lies in [0,1] and is no smaller than either signal.
C10_MaxOfSignals ==
    ( /\ call.fn = "calculate_cumulative_rainfall_factor"
      /\ call.recent_rain_level \in 0..5
      /\ call.current_rainfall >= 0 )
    => LET r == call.current_rainfall
           step == IF r >= 100 THEN 9
                   ELSE IF r >= 50 THEN 7
                   ELSE IF r >= 10 THEN 4
                   ELSE IF r > 0 THEN 2
                   ELSE 0
           history == base_moisture[call.recent_rain_level]
       IN /\ ~call.ret.raised
          /\ call.ret.total_moisture = Max(history, step)
          /\ call.ret.total_moisture >= history
          /\ call.ret.total_moisture >= step
          /\ 0 <= call.ret.total_moisture
          /\ call.ret.total_moisture <= 10
          /\ \A l1, l2 \in 0..5 :
                 l1 < l2 => base_moisture[l1] < base_moisture[l2]

\* a call where the rainfall step wins over the history entry
C10_Witness ==
    /\ call.fn = "calculate_cumulative_rainfall_factor"
    /\ call.recent_rain_level = 2
    /\ call.current_rainfall = 50
    /\ call.ret.total_moisture = 7

=============================================================================
